---- MODULE Spec2Model ----
(***************************************************************************)
(* PDF retrieval pipeline: page-aware chunking, the BM25 sparse encoder,    *)
(* the hybrid index operations, the ingestion run (process_single_pdf),     *)
(* the /upload batch handler and the /query path.                           *)
(*                                                                          *)
(* A text is a sequence of one-character strings, so that strip, lower,     *)
(* split and slicing are computed as Python computes them.                  *)
(***************************************************************************)
EXTENDS Integers, Sequences, FiniteSets, TLC

\* ------------------------------------------------------------------------
\* Bounds of the model
\* ------------------------------------------------------------------------
\* Number of requests (uploads, direct ingestions, queries) the workers serve.
MaxRequests == 2
\* Number of failures of the external services (file system, OCR, embedding
\* model, index backend being unreachable) injected in one behaviour.
MaxFaults == 1

\* ------------------------------------------------------------------------
\* Python str primitives
\* ------------------------------------------------------------------------
\* str.isspace for one character
IsSpace(c) == c \in {" ", "\n", "\t"}

\* code point order of the characters used (for sorted() on str)
Ord(c) ==
  CASE c = "\t" -> 9
    [] c = "\n" -> 10
    [] c = " "  -> 32
    [] c = ","  -> 44
    [] c = "."  -> 46
    [] c = "A"  -> 65
    [] c = "B"  -> 66
    [] c = "D"  -> 68
    [] c = "F"  -> 70
    [] c = "P"  -> 80
    [] c = "a"  -> 97
    [] c = "b"  -> 98
    [] c = "d"  -> 100
    [] c = "f"  -> 102
    [] c = "p"  -> 112
    [] c = "t"  -> 116
    [] c = "x"  -> 120
    [] OTHER    -> 127

\* str.lower for one character
LowerChar(c) ==
  CASE c = "A" -> "a"
    [] c = "B" -> "b"
    [] c = "D" -> "d"
    [] c = "F" -> "f"
    [] c = "P" -> "p"
    [] OTHER   -> c

\* str.lower
Lower(t) == [i \in 1..Len(t) |-> LowerChar(t[i])]

RECURSIVE LStrip(_)
LStrip(t) ==
  IF t = <<>> THEN <<>>
  ELSE IF IsSpace(Head(t)) THEN LStrip(Tail(t)) ELSE t

RECURSIVE RStrip(_)
RStrip(t) ==
  IF t = <<>> THEN <<>>
  ELSE IF IsSpace(t[Len(t)]) THEN RStrip(SubSeq(t, 1, Len(t) - 1)) ELSE t

\* str.strip()
Strip(t) == RStrip(LStrip(t))

\* str.split() with no argument: maximal runs of non-whitespace characters
RECURSIVE SplitWS(_, _)
SplitWS(t, cur) ==
  IF t = <<>> THEN (IF cur = <<>> THEN <<>> ELSE <<cur>>)
  ELSE IF IsSpace(Head(t))
       THEN (IF cur = <<>> THEN <<>> ELSE <<cur>>) \o SplitWS(Tail(t), <<>>)
       ELSE SplitWS(Tail(t), Append(cur, Head(t)))

\* s < t for str (lexicographic by code point)
RECURSIVE StrLess(_, _)
StrLess(s, t) ==
  IF t = <<>> THEN FALSE
  ELSE IF s = <<>> THEN TRUE
  ELSE IF Ord(Head(s)) < Ord(Head(t)) THEN TRUE
  ELSE IF Ord(Head(s)) > Ord(Head(t)) THEN FALSE
  ELSE StrLess(Tail(s), Tail(t))

\* "".join(parts)
RECURSIVE Concat(_)
Concat(parts) ==
  IF parts = <<>> THEN <<>> ELSE Head(parts) \o Concat(Tail(parts))

\* text[:n]
Prefix(t, n) == SubSeq(t, 1, IF Len(t) < n THEN Len(t) ELSE n)

\* the elements of a sequence / a sequence without its empty entries
Range(s) == {s[i] : i \in 1..Len(s)}

RECURSIVE DropEmpty(_)
DropEmpty(s) ==
  IF s = <<>> THEN <<>>
  ELSE IF Head(s) = <<>> THEN DropEmpty(Tail(s))
  ELSE <<Head(s)>> \o DropEmpty(Tail(s))

\* ------------------------------------------------------------------------
\* RecursiveCharacterTextSplitter, as chunker.py configures it
\* (keep_separator and strip_whitespace at their defaults, length_function=len)
\* ------------------------------------------------------------------------
\* separators = ["\n\n", "\n", ". ", ", ", " ", ""]
Separators ==
  << <<"\n", "\n">>, <<"\n">>, <<".", " ">>, <<",", " ">>, <<" ">>, <<>> >>

\* re.search(re.escape(sep), text) for a non-empty sep
Occurs(sep, text) ==
  \E i \in 1..(Len(text) - Len(sep) + 1) : SubSeq(text, i, i + Len(sep) - 1) = sep

\* the pieces between the leftmost non-overlapping occurrences of sep
RECURSIVE PiecesBetween(_, _, _, _)
PiecesBetween(text, sep, i, cur) ==
  IF i > Len(text) THEN <<cur>>
  ELSE IF i + Len(sep) - 1 <= Len(text) /\ SubSeq(text, i, i + Len(sep) - 1) = sep
       THEN <<cur>> \o PiecesBetween(text, sep, i + Len(sep), <<>>)
       ELSE PiecesBetween(text, sep, i + 1, Append(cur, text[i]))

\* _split_text_with_regex with keep_separator=True: each separator stays at the
\* start of the piece that follows it; empty pieces are dropped. With the empty
\* separator the text is split into its characters.
SplitKeep(text, sep) ==
  IF sep = <<>> THEN [i \in 1..Len(text) |-> <<text[i]>>]
  ELSE LET ps == PiecesBetween(text, sep, 1, <<>>)
       IN  DropEmpty([k \in 1..Len(ps) |-> IF k = 1 THEN ps[1] ELSE sep \o ps[k]])

\* _join_docs with the empty separator: the joined, stripped text, or nothing
\* when that is empty (returned here as a sequence of zero or one document)
JoinDocs(docs) ==
  LET text == Strip(Concat(docs)) IN IF text = <<>> THEN <<>> ELSE <<text>>

\* the inner while loop of _merge_splits: drop leading splits of current_doc
\* while it is longer than the overlap or the next split does not fit
RECURSIVE DropForOverlap(_, _, _, _, _)
DropForOverlap(cur, total, dlen, size, overlap) ==
  IF (total > overlap \/ (total + dlen > size /\ total > 0)) /\ cur # <<>>
  THEN DropForOverlap(Tail(cur), total - Len(Head(cur)), dlen, size, overlap)
  ELSE [cur |-> cur, total |-> total]

\* _merge_splits(splits, separator="") from the split at position i on
RECURSIVE MergeFrom(_, _, _, _, _, _, _)
MergeFrom(splits, i, docs, cur, total, size, overlap) ==
  IF i > Len(splits) THEN docs \o JoinDocs(cur)
  ELSE
    LET d == splits[i]
        over == total + Len(d) > size /\ cur # <<>>
        docs2 == IF over THEN docs \o JoinDocs(cur) ELSE docs
        st == IF over THEN DropForOverlap(cur, total, Len(d), size, overlap)
              ELSE [cur |-> cur, total |-> total]
    IN  MergeFrom(splits, i + 1, docs2, Append(st.cur, d), st.total + Len(d),
                  size, overlap)

MergeSplits(splits, size, overlap) ==
  MergeFrom(splits, 1, <<>>, <<>>, 0, size, overlap)

\* index of the separator _split_text picks: the first one that is empty or
\* occurs in the text
RECURSIVE PickSep(_, _, _)
PickSep(text, seps, i) ==
  IF i >= Len(seps) THEN Len(seps)
  ELSE IF seps[i] = <<>> \/ Occurs(seps[i], text) THEN i
  ELSE PickSep(text, seps, i + 1)

\* RecursiveCharacterTextSplitter._split_text
RECURSIVE SplitRec(_, _, _, _)
RECURSIVE SplitLoop(_, _, _, _, _, _)
SplitLoop(splits, i, good, newSeps, size, overlap) ==
  IF i > Len(splits)
  THEN (IF good # <<>> THEN MergeSplits(good, size, overlap) ELSE <<>>)
  ELSE
    LET s == splits[i] IN
    IF Len(s) < size
    THEN SplitLoop(splits, i + 1, Append(good, s), newSeps, size, overlap)
    ELSE (IF good # <<>> THEN MergeSplits(good, size, overlap) ELSE <<>>)
         \o (IF newSeps = <<>> THEN <<s>> ELSE SplitRec(s, newSeps, size, overlap))
         \o SplitLoop(splits, i + 1, <<>>, newSeps, size, overlap)

SplitRec(text, seps, size, overlap) ==
  LET k == PickSep(text, seps, 1)
      sep == seps[k]
      newSeps == IF sep = <<>> THEN <<>> ELSE SubSeq(seps, k + 1, Len(seps))
  IN  SplitLoop(SplitKeep(text, sep), 1, <<>>, newSeps, size, overlap)

\* TextSplitter.__init__ rejects these arguments with ValueError
SplitterRejects(size, overlap) == size <= 0 \/ overlap < 0 \/ overlap > size

\* splitter.split_text(text)
SplitText(text, size, overlap) == SplitRec(text, Separators, size, overlap)

\* ------------------------------------------------------------------------
\* chunker.py
\* ------------------------------------------------------------------------
\* the chunks of one page: one record per split, tagged with the page
PageChunks(page, size, overlap) ==
  LET sp == SplitText(page.text, size, overlap)
  IN  [k \in 1..Len(sp) |->
         [text |-> sp[k], page_number |-> page.page_number,
          page_numbers |-> <<page.page_number>>]]

\* (faulty variant) chunk_text_with_page_tracking without the blank-page test
RECURSIVE ChunkEveryPage(_, _, _)
ChunkEveryPage(pages_data, size, overlap) ==
  IF pages_data = <<>> THEN <<>>
  ELSE PageChunks(Head(pages_data), size, overlap)
       \o ChunkEveryPage(Tail(pages_data), size, overlap)

\* (faulty variant) the chunks of a page are put in front of those collected so far
RECURSIVE ChunkPagesReversed(_, _, _)
ChunkPagesReversed(pages_data, size, overlap) ==
  IF pages_data = <<>> THEN <<>>
  ELSE ChunkPagesReversed(Tail(pages_data), size, overlap)
       \o (IF Strip(Head(pages_data).text) = <<>> THEN <<>>
           ELSE PageChunks(Head(pages_data), size, overlap))

\* chunk_text_with_page_tracking: the loop over pages_data (the splitter has
\* been constructed, so SplitterRejects is false)
RECURSIVE chunk_text_with_page_tracking(_, _, _)
chunk_text_with_page_tracking(pages_data, size, overlap) ==
  IF pages_data = <<>> THEN <<>>
  ELSE (IF Strip(Head(pages_data).text) = <<>> THEN <<>>
        ELSE PageChunks(Head(pages_data), size, overlap))
       \o chunk_text_with_page_tracking(Tail(pages_data), size, overlap)

\* ------------------------------------------------------------------------
\* BM25SparseEncoder.encode_documents
\* ------------------------------------------------------------------------
\* text.lower().split()
Tokenize(text) == SplitWS(Lower(text), <<>>)

\* the keys of Counter(tokens), in insertion (first occurrence) order
RECURSIVE Distinct(_, _)
Distinct(tokens, seen) ==
  IF tokens = <<>> THEN <<>>
  ELSE IF Head(tokens) \in seen THEN Distinct(Tail(tokens), seen)
  ELSE <<Head(tokens)>> \o Distinct(Tail(tokens), seen \cup {Head(tokens)})

\* Counter(tokens)[term]
Count(tokens, term) == Cardinality({i \in 1..Len(tokens) : tokens[i] = term})

RECURSIVE SumSeq(_)
SumSeq(s) == IF s = <<>> THEN 0 ELSE Head(s) + SumSeq(Tail(s))

\* the distinct terms of the batch
Terms(docs_tokens) == UNION {Range(docs_tokens[i]) : i \in 1..Len(docs_tokens)}

\* every enumeration of a finite set without repetition
Enumerations(S) ==
  {f \in [1..Cardinality(S) -> S] : \A i, j \in 1..Cardinality(S) : f[i] = f[j] => i = j}

\* sorted(keys) for str keys: insertion sort by StrLess
RECURSIVE InsertSorted(_, _)
InsertSorted(sorted, x) ==
  IF sorted = <<>> THEN <<x>>
  ELSE IF StrLess(x, Head(sorted)) THEN <<x>> \o sorted
  ELSE <<Head(sorted)>> \o InsertSorted(Tail(sorted), x)

RECURSIVE SortStr(_)
SortStr(keys) ==
  IF keys = <<>> THEN <<>>
  ELSE InsertSorted(SortStr(SubSeq(keys, 1, Len(keys) - 1)), keys[Len(keys)])

\* the vocabulary with the terms taken in the order of df.keys()
VocabUnsorted(keys) == keys

\* vocab = {term: idx for idx, term in enumerate(sorted(df.keys()))}, as the
\* sequence of terms whose position minus one is the term's id
Vocab(keys) == SortStr(keys)

\* vocab[term]
TermId(vocab, term) == (CHOOSE i \in 1..Len(vocab) : vocab[i] = term) - 1

\* The BM25 weight of a term. The float is kept as the exact quantities it is
\* computed from: idf = log((n - df + 0.5) / (df + 0.5) + 1.0) and
\* score = idf * freq * (k1 + 1) / (freq + k1 * (1 - b + b * doc_len / avg_len))
\* with avg_len = sum_len / n.
Bm25Score(n, dfreq, freq, doc_len, sum_len) ==
  [num_docs |-> n, df |-> dfreq, freq |-> freq, doc_len |-> doc_len, sum_len |-> sum_len]

\* the sparse vector of one tokenised text
SparseOf(tokens, docs_tokens, vocab, sum_len) ==
  LET terms == Distinct(tokens, {})
      n == Len(docs_tokens)
      dfOf(term) == Cardinality({i \in 1..n : term \in Range(docs_tokens[i])})
      known == SelectSeq(terms, LAMBDA term : term \in Range(vocab))
  IN  [indices |-> [j \in 1..Len(known) |-> TermId(vocab, known[j])],
       values  |-> [j \in 1..Len(known) |->
                      Bm25Score(n, dfOf(known[j]), Count(tokens, known[j]),
                            Len(tokens), sum_len)]]

\* (faulty variant) texts without tokens get no vector
EncodeSkippingEmpty(texts, keys) ==
  LET docs_tokens == [i \in 1..Len(texts) |-> Tokenize(texts[i])]
      kept == SelectSeq(docs_tokens, LAMBDA tokens : tokens # <<>>)
      sum_len == SumSeq([i \in 1..Len(kept) |-> Len(kept[i])])
  IN  [raised |-> "",
       vectors |-> [i \in 1..Len(kept) |->
                      SparseOf(kept[i], docs_tokens, Vocab(keys), sum_len)]]

\* encode_documents(texts). keys is df.keys(): the distinct terms in the order
\* the Counter received them, which follows the iteration order of set(tokens)
\* (hash order). The result is the list of sparse vectors, or a raised
\* ZeroDivisionError when a weight is computed with avg_len = 0.
encode_documents(texts, keys) ==
  LET docs_tokens == [i \in 1..Len(texts) |-> Tokenize(texts[i])]
      docs_len == [i \in 1..Len(texts) |-> Len(docs_tokens[i])]
      sum_len == SumSeq(docs_len)
      avgZero == Len(docs_len) > 0 /\ sum_len = 0
      vocab == Vocab(keys)
  IN  IF avgZero /\ \E i \in 1..Len(texts) : docs_tokens[i] # <<>>
      THEN [raised |-> "float division by zero", vectors |-> <<>>]
      ELSE [raised |-> "",
            vectors |-> [i \in 1..Len(texts) |->
                           SparseOf(docs_tokens[i], docs_tokens, vocab, sum_len)]]

\* the orders df.keys() can have for this batch
KeyOrders(texts) ==
  Enumerations(Terms([i \in 1..Len(texts) |-> Tokenize(texts[i])]))

\* ------------------------------------------------------------------------
\* Dense embedding model (embedding.py); the model itself is external
\* ------------------------------------------------------------------------
\* get_embedding_model(name): name or "BAAI/bge-m3"
ModelName(name) == IF name = "None" THEN "BAAI/bge-m3" ELSE name

\* the vector size of a model (stand-ins for the sizes of the real models)
EmbeddingDim(name) == IF ModelName(name) = "BAAI/bge-m3" THEN 3 ELSE 2

\* the embedding of one text: a fixed function of the model and the text
\* (how often "a", "b" and white space occur in it)
DenseVec(name, text) ==
  LET cnt(S) == Cardinality({i \in 1..Len(text) : LowerChar(text[i]) \in S})
  IN  [i \in 1..EmbeddingDim(name) |->
         CASE i = 1 -> cnt({"a"}) [] i = 2 -> cnt({"b"}) [] OTHER -> cnt({" ", "\n"})]

\* SentenceTransformerEmbeddings.embed: one vector per text
embed(name, texts) == [i \in 1..Len(texts) |-> DenseVec(name, texts[i])]

\* ------------------------------------------------------------------------
\* The index backend (Qdrant), as the client calls of the source see it
\* ------------------------------------------------------------------------
Collections == {"kb", "other"}

NoCollection ==
  [exists |-> FALSE, size |-> 0, distance |-> "", sparse |-> FALSE, points |-> {}]

\* (faulty variant) the existence test always answers "absent"
NeverExists(idx, name) == FALSE

\* client.collection_exists(name); client.get_collection(name) raises when
\* it is false
collection_exists(idx, name) == idx[name].exists

\* client.create_collection(name, vectors_config={"dense": VectorParams(size,
\* distance)}, sparse_vectors_config={"sparse": ...}): the backend refuses an
\* existing name and a size below 1
CreateRefused(idx, name, size) == idx[name].exists \/ size < 1

create_collection(idx, name, size, distance) ==
  [idx EXCEPT ![name] =
     [exists |-> TRUE, size |-> size, distance |-> distance, sparse |-> TRUE,
      points |-> {}]]

\* ensure_collection(client, name, vector_size) when the backend answers and
\* no other call comes between the test and the creation
ensure_collection(idx, name, size) ==
  IF collection_exists(idx, name) THEN idx
  ELSE create_collection(idx, name, size, "Cosine")

\* (faulty variant) the backend does not compare the vector sizes
UpsertRefusedIfMissing(idx, name, points) == ~idx[name].exists

\* client.upsert(name, points): refused as a whole when the collection is
\* missing or a dense vector has not the collection's size
UpsertRefused(idx, name, points) ==
  \/ ~idx[name].exists
  \/ \E pt \in points : Len(pt.dense) # idx[name].size

\* client.upsert: points are stored by id, a point with a stored id replaces it
upsert(idx, name, points) ==
  [idx EXCEPT ![name].points =
     {old \in @ : \A pt \in points : pt.id # old.id} \cup points]

\* (faulty variant) ids taken from the position of the chunk in its upsert
SameIdPerIndex(n, i) == i

\* str(uuid.uuid4()): the id of the i-th point of an upsert when n ids have been
\* generated so far; a uuid4 never repeats
NewId(n, i) == n + i

Min(a, b) == IF a < b THEN a ELSE b

\* upsert_chunks: the points built by the zip over the three lists
PointsOf(n, embeddings, sparse_vectors, payloads) ==
  {[id |-> NewId(n, i), dense |-> embeddings[i], sparse |-> sparse_vectors[i],
    payload |-> payloads[i]] :
     i \in 1..Min(Len(embeddings), Min(Len(sparse_vectors), Len(payloads)))}

\* ------------------------------------------------------------------------
\* Uploaded files and requests
\* ------------------------------------------------------------------------
\* An uploaded file: its name and the text the extractor finds on its pages.
FileA == [filename |-> <<"a", ".", "p", "d", "f">>,
          pages |-> << <<"a", " ", "b">>, <<" ">>, <<"B", " ", "a">> >>]
FileB == [filename |-> <<"b", ".", "P", "D", "F">>, pages |-> << <<"b", " ", "a">> >>]
FileBlank == [filename |-> <<"x", ".", "p", "d", "f">>, pages |-> << <<" ", "\n">> >>]
FileTxt == [filename |-> <<"t", ".", "t", "x", "t">>, pages |-> << <<"a">> >>]

Upload(files, coll, model, size, overlap) ==
  [kind |-> "upload", files |-> files, collection_name |-> coll,
   model_name |-> model, chunk_size |-> size, chunk_overlap |-> overlap,
   query |-> <<>>, limit |-> 0]

\* a direct call of services.pdf.process_single_pdf on one file
Ingest(file, coll, model, size, overlap) ==
  [kind |-> "ingest", files |-> <<file>>, collection_name |-> coll,
   model_name |-> model, chunk_size |-> size, chunk_overlap |-> overlap,
   query |-> <<>>, limit |-> 0]

Query(text, coll, model, limit) ==
  [kind |-> "query", files |-> <<>>, collection_name |-> coll,
   model_name |-> model, chunk_size |-> 0, chunk_overlap |-> 0,
   query |-> text, limit |-> limit]

Requests ==
  { Upload(<<FileA, FileBlank, FileB>>, "kb", "None", 4, 1),
    Upload(<<FileB>>, "kb", "None", 4, 1),
    Upload(<<FileA>>, "kb", "None", 1, 0),
    Upload(<<FileB>>, "kb", "None", 2, 2),
    Upload(<<FileB>>, "kb", "None", 2, 3),
    Upload(<<FileB>>, "kb", "small", 4, 1),
    Upload(<<FileB>>, "other", "None", 4, 1),
    Upload(<<FileB, FileTxt>>, "kb", "None", 4, 1),
    Ingest(FileA, "kb", "None", 4, 1),
    Query(<<"a">>, "kb", "None", 5),
    Query(<<"b", " ", "a">>, "kb", "None", 1) }

Procs == {"w1", "w2"}

\* ------------------------------------------------------------------------
\* State
\* ------------------------------------------------------------------------
VARIABLES
  index,      \* the index backend: collection name -> collection
  nextId,     \* number of point ids generated so far
  tmpdirs,    \* the temporary directories that exist
  tmpfiles,   \* the files in them: [dir, name, converted]
  reqCount,   \* requests started so far
  faults,     \* failures of external services injected so far
  anyLen,     \* whether the embedding model may return any number of vectors
  pc,         \* where each worker is
  req,        \* the request a worker serves
  tmp,        \* its temporary directory (upload) or the caller's directory
  k,          \* position in the batch of the file being processed
  run,        \* locals of the process_single_pdf call in progress
  details,    \* files_details of the upload handler
  resp,       \* the response of the worker's last request
  call,       \* a direct call of the chunker or the sparse encoder: its arguments
  ret         \* and what it returned

vars == <<index, nextId, tmpdirs, tmpfiles, reqCount, faults, anyLen,
          pc, req, tmp, k, run, details, resp, call, ret>>

NoRun == [pages |-> <<>>, chunks |-> <<>>, vectors |-> <<>>, sparse |-> <<>>,
          vector_size |-> 0]
NoRequest == Query(<<>>, "kb", "None", 0)
NoResponse == [code |-> 0]

NoCall == [fn |-> "none"]
NoReturn == [pending |-> TRUE]

InitWith(any, calls) ==
  /\ call \in calls
  /\ ret = NoReturn
  /\ index = [c \in Collections |-> NoCollection]
  /\ nextId = 0
  /\ tmpdirs = {}
  /\ tmpfiles = {}
  /\ reqCount = 0
  /\ faults = 0
  /\ anyLen = any
  /\ pc = [p \in Procs |-> "idle"]
  /\ req = [p \in Procs |-> NoRequest]
  /\ tmp = [p \in Procs |-> 0]
  /\ k = [p \in Procs |-> 0]
  /\ run = [p \in Procs |-> NoRun]
  /\ details = [p \in Procs |-> <<>>]
  /\ resp = [p \in Procs |-> NoResponse]

Init == InitWith(FALSE, {NoCall})

\* whether a further failure of an external service may be injected
FaultChoices == IF faults < MaxFaults THEN {FALSE, TRUE} ELSE {FALSE}

\* ------------------------------------------------------------------------
\* process_single_pdf
\* ------------------------------------------------------------------------
\* main.py calls mypdf_handler.process_single_pdf (with myvector_store's
\* ensure_collection); a direct ingestion calls services.pdf.process_single_pdf
Variant(p) == IF req[p].kind = "upload" THEN "handler" ELSE "services"

File(p) == req[p].files[k[p]]

\* temp_path = os.path.join(temp_dir, file.filename)
FilePath(p) == [dir |-> tmp[p], name |-> File(p).filename]

\* the result records of process_single_pdf
\* (faulty variant) the except clause reports a fixed text instead of str(e)
ErrorResultFixedText(filename, message) ==
  [filename |-> filename, chunks |-> 0, status |-> "error",
   message |-> "Processing failed"]

ErrorResult(filename, message) ==
  [filename |-> filename, chunks |-> 0, status |-> "error", message |-> message]

SuccessResult(filename, n) ==
  [filename |-> filename, chunks |-> n, status |-> "success",
   message |-> <<"Processed", n, "chunks">>]

\* (faulty variant) the upload loop ends at the first file that fails
ReturnStopAtError(p, result) ==
  /\ run' = [run EXCEPT ![p] = NoRun]
  /\ IF req[p].kind = "upload"
     THEN /\ details' = [details EXCEPT ![p] = Append(@, result)]
          /\ resp' = resp
          /\ IF k[p] < Len(req[p].files) /\ result.status = "success"
             THEN /\ k' = [k EXCEPT ![p] = @ + 1]
                  /\ pc' = [pc EXCEPT ![p] = "save"]
             ELSE /\ k' = k
                  /\ pc' = [pc EXCEPT ![p] = "cleanup"]
     ELSE /\ details' = details
          /\ resp' = [resp EXCEPT ![p] = result]
          /\ k' = k
          /\ pc' = [pc EXCEPT ![p] = "idle"]

\* process_single_pdf returns result: the upload handler appends it to
\* files_details and goes on with the next file; a direct caller receives it
Return(p, result) ==
  /\ run' = [run EXCEPT ![p] = NoRun]
  /\ IF req[p].kind = "upload"
     THEN /\ details' = [details EXCEPT ![p] = Append(@, result)]
          /\ resp' = resp
          /\ IF k[p] < Len(req[p].files)
             THEN /\ k' = [k EXCEPT ![p] = @ + 1]
                  /\ pc' = [pc EXCEPT ![p] = "save"]
             ELSE /\ k' = k
                  /\ pc' = [pc EXCEPT ![p] = "cleanup"]
     ELSE /\ details' = details
          /\ resp' = [resp EXCEPT ![p] = result]
          /\ k' = k
          /\ pc' = [pc EXCEPT ![p] = "idle"]

\* except Exception as e: return {... "status": "error", "message": str(e)}
Raise(p, message) == Return(p, ErrorResult(File(p).filename, message))

\* pages_data of extract_text_with_pages
PagesData(file) ==
  [i \in 1..Len(file.pages) |-> [page_number |-> i, text |-> file.pages[i]]]

\* not pages_data or all(not p["text"].strip() for p in pages_data)
NoText(pages_data) ==
  pages_data = <<>> \/ \A i \in 1..Len(pages_data) : Strip(pages_data[i].text) = <<>>

\* pdf_to_searchable_pdf and extract_text_with_pages, then the no-text guard
Extract(p) ==
  /\ pc[p] = "extract"
  /\ \E fault \in FaultChoices :
       /\ faults' = faults + (IF fault THEN 1 ELSE 0)
       /\ IF fault
          THEN /\ Raise(p, "extraction failed")
               /\ UNCHANGED tmpfiles
          ELSE /\ tmpfiles' = tmpfiles \cup
                    {[dir |-> tmp[p], name |-> File(p).filename, converted |-> TRUE]}
               /\ IF NoText(PagesData(File(p)))
                  THEN Return(p, ErrorResult(File(p).filename, "No text extracted from PDF"))
                  ELSE /\ run' = [run EXCEPT ![p].pages = PagesData(File(p))]
                       /\ pc' = [pc EXCEPT ![p] = "chunk"]
                       /\ UNCHANGED <<k, details, resp>>
  /\ UNCHANGED <<index, nextId, tmpdirs, reqCount, anyLen, req, tmp>>
  /\ UNCHANGED <<call, ret>>

\* chunk_text_with_page_tracking, then (services/pdf.py only) the no-chunks guard
Chunk(p) ==
  /\ pc[p] = "chunk"
  /\ LET size == req[p].chunk_size
         overlap == req[p].chunk_overlap
         chunks == chunk_text_with_page_tracking(run[p].pages, size, overlap)
     IN  IF SplitterRejects(size, overlap)
         THEN Raise(p, "Got a larger chunk overlap than chunk size")
         ELSE IF Variant(p) = "services" /\ chunks = <<>>
         THEN Return(p, ErrorResult(File(p).filename, "No chunks generated"))
         ELSE /\ run' = [run EXCEPT ![p].chunks = chunks]
              /\ pc' = [pc EXCEPT ![p] = "encode"]
              /\ UNCHANGED <<k, details, resp>>
  /\ UNCHANGED <<index, nextId, tmpdirs, tmpfiles, reqCount, faults, anyLen, req, tmp>>
  /\ UNCHANGED <<call, ret>>

\* embedder.embed(chunk_texts), vector_size, sparse_encoder.encode_documents
Encode(p) ==
  /\ pc[p] = "encode"
  /\ LET chunk_texts == [i \in 1..Len(run[p].chunks) |-> run[p].chunks[i].text]
         all == embed(req[p].model_name, chunk_texts \o << <<>> >>)
     IN  \E fault \in FaultChoices :
         \E n \in (IF anyLen
                   THEN {0, Len(chunk_texts) - 1, Len(chunk_texts), Len(chunk_texts) + 1} \cap Nat
                   ELSE {Len(chunk_texts)}) :
         \E keys \in KeyOrders(chunk_texts) :
           LET vectors == SubSeq(all, 1, n)
               enc == encode_documents(chunk_texts, keys)
           IN  /\ faults' = faults + (IF fault THEN 1 ELSE 0)
               /\ IF fault THEN Raise(p, "embedding failed")
                  ELSE IF enc.raised # "" THEN Raise(p, enc.raised)
                  ELSE /\ run' = [run EXCEPT ![p].vectors = vectors,
                                             ![p].sparse = enc.vectors,
                                             ![p].vector_size =
                                               IF vectors # <<>> THEN Len(vectors[1]) ELSE 0]
                       /\ pc' = [pc EXCEPT ![p] = "ensure"]
                       /\ UNCHANGED <<k, details, resp>>
  /\ UNCHANGED <<index, nextId, tmpdirs, tmpfiles, reqCount, anyLen, req, tmp>>
  /\ UNCHANGED <<call, ret>>

\* ensure_collection, the existence test. services/search.py asks
\* client.collection_exists and lets a failure propagate; myvector_store.py
\* asks client.get_collection and takes any exception for "does not exist".
EnsureCheck(p) ==
  /\ pc[p] = "ensure"
  /\ \E fault \in FaultChoices :
       /\ faults' = faults + (IF fault THEN 1 ELSE 0)
       /\ IF fault /\ Variant(p) = "services"
          THEN Raise(p, "index unreachable")
          ELSE /\ pc' = [pc EXCEPT ![p] =
                    IF ~fault /\ collection_exists(index, req[p].collection_name)
                    THEN "upsert" ELSE "create"]
               /\ UNCHANGED <<k, details, resp, run>>
  /\ UNCHANGED <<index, nextId, tmpdirs, tmpfiles, reqCount, anyLen, req, tmp>>
  /\ UNCHANGED <<call, ret>>

\* ensure_collection, client.create_collection
EnsureCreate(p) ==
  /\ pc[p] = "create"
  /\ \E fault \in FaultChoices :
       /\ faults' = faults + (IF fault THEN 1 ELSE 0)
       /\ IF fault
          THEN /\ Raise(p, "index unreachable")
               /\ UNCHANGED index
          ELSE IF CreateRefused(index, req[p].collection_name, run[p].vector_size)
          THEN /\ Raise(p, "create_collection refused")
               /\ UNCHANGED index
          ELSE /\ index' = create_collection(index, req[p].collection_name,
                                             run[p].vector_size, "Cosine")
               /\ pc' = [pc EXCEPT ![p] = "upsert"]
               /\ UNCHANGED <<k, details, resp, run>>
  /\ UNCHANGED <<nextId, tmpdirs, tmpfiles, reqCount, anyLen, req, tmp>>
  /\ UNCHANGED <<call, ret>>

\* (faulty variant) chunk_index counted from 1
PayloadsFromOne(path, chunks) ==
  [i \in 1..Len(chunks) |->
     [source_path |-> path, filename |-> path.name, chunk_index |-> i,
      page_number |-> chunks[i].page_number, page_numbers |-> chunks[i].page_numbers,
      text |-> chunks[i].text]]

\* payloads of process_single_pdf
Payloads(path, chunks) ==
  [i \in 1..Len(chunks) |->
     [source_path |-> path, filename |-> path.name, chunk_index |-> i - 1,
      page_number |-> chunks[i].page_number, page_numbers |-> chunks[i].page_numbers,
      text |-> chunks[i].text]]

\* the payloads, then upsert_chunks and the success result, or the
\* "No vectors generated" result
Upsert(p) ==
  /\ pc[p] = "upsert"
  /\ LET payloads == Payloads(FilePath(p), run[p].chunks)
         points == PointsOf(nextId, run[p].vectors, run[p].sparse, payloads)
         name == req[p].collection_name
     IN  \E fault \in FaultChoices :
           /\ faults' = faults + (IF fault THEN 1 ELSE 0)
           /\ IF run[p].vectors = <<>> \/ run[p].sparse = <<>> \/ payloads = <<>>
              THEN /\ ~fault
                   /\ Return(p, ErrorResult(File(p).filename, "No vectors generated"))
                   /\ UNCHANGED <<index, nextId>>
              ELSE IF fault
              THEN /\ Raise(p, "index unreachable")
                   /\ nextId' = nextId + Cardinality(points)
                   /\ UNCHANGED index
              ELSE IF UpsertRefused(index, name, points)
              THEN /\ Raise(p, "upsert refused")
                   /\ nextId' = nextId + Cardinality(points)
                   /\ UNCHANGED index
              ELSE /\ index' = upsert(index, name, points)
                   /\ nextId' = nextId + Cardinality(points)
                   /\ Return(p, SuccessResult(File(p).filename, Len(run[p].chunks)))
  /\ UNCHANGED <<tmpdirs, tmpfiles, reqCount, anyLen, req, tmp>>
  /\ UNCHANGED <<call, ret>>

\* ------------------------------------------------------------------------
\* perform_hybrid_search and the /query handler
\* ------------------------------------------------------------------------
\* payload.get("text", "")[:300]
TextLimit == 300

\* the similarity the backend ranks by (stand-in for the cosine of the
\* "dense" vectors: their inner product)
Similarity(q, v) == SumSeq([i \in 1..Len(q) |-> q[i] * v[i]])

\* client.query_points(collection_name, query=dense_vector, using="dense",
\* limit=limit): refused when the collection is missing or the query vector
\* has not its size
QueryRefused(idx, name, q) == ~idx[name].exists \/ Len(q) # idx[name].size

\* the answers the backend may give: the limit best points by similarity,
\* best first, points of equal similarity in any order
RECURSIVE query_points(_, _, _)
query_points(points, q, limit) ==
  IF limit <= 0 \/ points = {} THEN {<<>>}
  ELSE LET best == {pt \in points :
                      \A o \in points : Similarity(q, o.dense) <= Similarity(q, pt.dense)}
       IN  UNION {{<<pt>> \o rest : rest \in query_points(points \ {pt}, q, limit - 1)} :
                  pt \in best}

\* the ScoredPoint the backend returns for a stored point
Scored(pt, q) == [id |-> pt.id, payload |-> pt.payload, score |-> Similarity(q, pt.dense)]

\* payload.get(key, default)
Get(payload, key, default) == IF key \in DOMAIN payload THEN payload[key] ELSE default

\* the empty str as a path
NoPath == [dir |-> 0, name |-> <<>>]

\* (faulty variant) the text is not truncated
SourceWholeText(point) ==
  LET payload == point.payload
      source_path == Get(payload, "source_path", NoPath)
  IN  [url |-> IF source_path # NoPath THEN <<"file://", source_path>> ELSE <<"N/A">>,
       filename |-> Get(payload, "filename", <<>>),
       page_number |-> Get(payload, "page_number", "N/A"),
       source_path |-> source_path,
       text |-> Get(payload, "text", <<>>),
       score |-> point.score]

\* one entry of sources, from a point of results.points
Source(point) ==
  LET payload == point.payload
      source_path == Get(payload, "source_path", NoPath)
  IN  [url |-> IF source_path # NoPath THEN <<"file://", source_path>> ELSE <<"N/A">>,
       filename |-> Get(payload, "filename", <<>>),
       page_number |-> Get(payload, "page_number", "N/A"),
       source_path |-> source_path,
       text |-> Prefix(Get(payload, "text", <<>>), TextLimit),
       score |-> point.score]

\* (faulty variant) the sparse vector is mixed into the query vector
QueryArgsFused(dense_vector, sparse_vector, limit) ==
  [query |-> [i \in DOMAIN dense_vector |-> dense_vector[i] + Len(sparse_vector.indices)],
   using |-> "dense", limit |-> limit]

\* the arguments of client.query_points: query=dense_vector, using="dense",
\* limit=limit; sparse_vector is not passed
QueryArgs(dense_vector, sparse_vector, limit) ==
  [query |-> dense_vector, using |-> "dense", limit |-> limit]

\* the backend's answers to a limit below 1: it may refuse the request or
\* answer with no point
LimitRefusals(limit) == IF limit < 1 THEN {FALSE, TRUE} ELSE {FALSE}

\* perform_hybrid_search(client, collection_name, query_text, model_name,
\* limit): every outcome it can have on the index idx, a returned list of
\* sources (with results.points, the points it was built from) or a raised
\* exception
perform_hybrid_search(idx, name, query_text, model_name, limit) ==
  LET dense_vector == embed(model_name, <<query_text>>)[1]
      outcomes(keys) ==
        LET enc == encode_documents(<<query_text>>, keys)
            args == QueryArgs(dense_vector, enc.vectors[1], limit)
        IN  IF enc.raised # ""
            THEN {[raised |-> enc.raised, sources |-> <<>>, points |-> <<>>]}
            ELSE IF QueryRefused(idx, name, args.query)
            THEN {[raised |-> "query refused", sources |-> <<>>, points |-> <<>>]}
            ELSE {[raised |-> "query refused", sources |-> <<>>, points |-> <<>>] :
                    refused \in LimitRefusals(args.limit) \ {FALSE}}
                 \cup
                 {[raised |-> "",
                   sources |-> [i \in 1..Len(points) |->
                                  Source(Scored(points[i], args.query))],
                   points |-> [i \in 1..Len(points) |-> Scored(points[i], args.query)]] :
                    points \in query_points(idx[name].points, args.query, args.limit)}
  IN  UNION {outcomes(keys) : keys \in KeyOrders(<<query_text>>)}

\* query_documents: perform_hybrid_search, then the answer, or the exception
\* that leaves the handler (HTTP 500)
Search(p) ==
  /\ pc[p] = "search"
  /\ \E fault \in FaultChoices :
       /\ faults' = faults + (IF fault THEN 1 ELSE 0)
       /\ IF fault
          THEN resp' = [resp EXCEPT ![p] = [code |-> 500, detail |-> "service unreachable"]]
          ELSE \E out \in perform_hybrid_search(index, req[p].collection_name, req[p].query,
                                                req[p].model_name, req[p].limit) :
                 IF out.raised # ""
                 THEN resp' = [resp EXCEPT ![p] = [code |-> 500, detail |-> out.raised]]
                 ELSE resp' = [resp EXCEPT ![p] =
                        [code |-> 200,
                         answer |-> IF out.sources = <<>>
                                    THEN "No relevant information found."
                                    ELSE "generated answer",
                         sources |-> out.sources,
                         unique_files |-> {out.sources[i].filename : i \in 1..Len(out.sources)}
                                            \ {<<>>}]]
  /\ pc' = [pc EXCEPT ![p] = "idle"]
  /\ UNCHANGED <<index, nextId, tmpdirs, tmpfiles, reqCount, anyLen, req, tmp, k, run, details>>
  /\ UNCHANGED <<call, ret>>

\* ------------------------------------------------------------------------
\* The /upload handler
\* ------------------------------------------------------------------------
\* file.filename.lower().endswith('.pdf')
IsPdfName(name) ==
  Len(name) >= 4 /\ SubSeq(Lower(name), Len(name) - 3, Len(name)) = <<".", "p", "d", "f">>

\* a worker takes one of the given requests
BeginFrom(p, requests) ==
  /\ pc[p] = "idle"
  /\ reqCount < MaxRequests
  /\ \E r \in requests :
       /\ req' = [req EXCEPT ![p] = r]
       /\ pc' = [pc EXCEPT ![p] =
            CASE r.kind = "upload" -> "validate"
              [] r.kind = "ingest" -> "extract"
              [] OTHER -> "search"]
       /\ k' = [k EXCEPT ![p] = IF r.kind = "ingest" THEN 1 ELSE 0]
       /\ tmp' = [tmp EXCEPT ![p] = IF r.kind = "upload" THEN reqCount + 1 ELSE 0]
  /\ reqCount' = reqCount + 1
  /\ details' = [details EXCEPT ![p] = <<>>]
  /\ resp' = [resp EXCEPT ![p] = NoResponse]
  /\ run' = [run EXCEPT ![p] = NoRun]
  /\ UNCHANGED <<index, nextId, tmpdirs, tmpfiles, faults, anyLen>>
  /\ UNCHANGED <<call, ret>>

Begin(p) == BeginFrom(p, Requests)

\* the validation loop over files, then tempfile.mkdtemp()
Validate(p) ==
  /\ pc[p] = "validate"
  /\ LET files == req[p].files
         bad == {i \in 1..Len(files) : ~IsPdfName(files[i].filename)}
     IN  IF bad # {}
         THEN /\ resp' = [resp EXCEPT ![p] =
                   [code |-> 400, detail |-> <<"not a PDF",
                      files[CHOOSE i \in bad : \A j \in bad : i <= j].filename>>]]
              /\ pc' = [pc EXCEPT ![p] = "idle"]
              /\ UNCHANGED <<tmpdirs, k>>
         ELSE IF files = <<>>
         THEN /\ resp' = [resp EXCEPT ![p] = [code |-> 400, detail |-> <<"No PDF files provided">>]]
              /\ pc' = [pc EXCEPT ![p] = "idle"]
              /\ UNCHANGED <<tmpdirs, k>>
         ELSE /\ tmpdirs' = tmpdirs \cup {tmp[p]}
              /\ k' = [k EXCEPT ![p] = 1]
              /\ pc' = [pc EXCEPT ![p] = "save"]
              /\ UNCHANGED resp
  /\ UNCHANGED <<index, nextId, tmpfiles, reqCount, faults, anyLen, req, tmp, run, details>>
  /\ UNCHANGED <<call, ret>>

\* open(temp_path, "wb") and shutil.copyfileobj; an OSError leaves the loop
\* for the finally block
Save(p) ==
  /\ pc[p] = "save"
  /\ \E fault \in FaultChoices :
       /\ faults' = faults + (IF fault THEN 1 ELSE 0)
       /\ IF fault
          THEN /\ pc' = [pc EXCEPT ![p] = "cleanup_exc"]
               /\ UNCHANGED tmpfiles
          ELSE /\ pc' = [pc EXCEPT ![p] = "extract"]
               /\ tmpfiles' = tmpfiles \cup
                    {[dir |-> tmp[p], name |-> File(p).filename, converted |-> FALSE]}
  /\ UNCHANGED <<index, nextId, tmpdirs, reqCount, anyLen, req, tmp, k, run, details, resp>>
  /\ UNCHANGED <<call, ret>>

\* successful_files and the UploadResponse
UploadResponse(r, files_details) ==
  LET successful_files ==
        Cardinality({i \in 1..Len(files_details) : files_details[i].status = "success"})
  IN  [code |-> 200,
       message |-> <<"Processed", successful_files, Len(r.files)>>,
       collection_name |-> r.collection_name,
       files_processed |-> successful_files,
       files_details |-> files_details]

\* (faulty variant) the directory is removed on the normal return only
CleanupOnReturnOnly(p) ==
  /\ pc[p] \in {"cleanup", "cleanup_exc"}
  /\ \E fault \in FaultChoices :
       /\ faults' = faults + (IF fault THEN 1 ELSE 0)
       /\ IF fault \/ pc[p] = "cleanup_exc"
          THEN UNCHANGED <<tmpdirs, tmpfiles>>
          ELSE /\ tmpdirs' = tmpdirs \ {tmp[p]}
               /\ tmpfiles' = {f \in tmpfiles : f.dir # tmp[p]}
  /\ resp' = [resp EXCEPT ![p] =
       IF pc[p] = "cleanup_exc" THEN [code |-> 500, detail |-> "upload failed"]
       ELSE UploadResponse(req[p], details[p])]
  /\ pc' = [pc EXCEPT ![p] = "idle"]
  /\ UNCHANGED <<index, nextId, reqCount, anyLen, req, tmp, k, run, details>>
  /\ UNCHANGED <<call, ret>>

\* finally: shutil.rmtree(temp_dir), its failure ignored; then the response,
\* or the exception that left the loop (HTTP 500)
Cleanup(p) ==
  /\ pc[p] \in {"cleanup", "cleanup_exc"}
  /\ \E fault \in FaultChoices :
       /\ faults' = faults + (IF fault THEN 1 ELSE 0)
       /\ IF fault
          THEN UNCHANGED <<tmpdirs, tmpfiles>>
          ELSE /\ tmpdirs' = tmpdirs \ {tmp[p]}
               /\ tmpfiles' = {f \in tmpfiles : f.dir # tmp[p]}
  /\ resp' = [resp EXCEPT ![p] =
       IF pc[p] = "cleanup_exc" THEN [code |-> 500, detail |-> "upload failed"]
       ELSE UploadResponse(req[p], details[p])]
  /\ pc' = [pc EXCEPT ![p] = "idle"]
  /\ UNCHANGED <<index, nextId, reqCount, anyLen, req, tmp, k, run, details>>
  /\ UNCHANGED <<call, ret>>

\* ------------------------------------------------------------------------
\* Specifications
\* ------------------------------------------------------------------------
Next ==
  \E p \in Procs :
    \/ Begin(p)
    \/ Validate(p)
    \/ Save(p)
    \/ Extract(p)
    \/ Chunk(p)
    \/ Encode(p)
    \/ EnsureCheck(p)
    \/ EnsureCreate(p)
    \/ Upsert(p)
    \/ Cleanup(p)
    \/ Search(p)

Spec == Init /\ [][Next]_vars

\* ------------------------------------------------------------------------
\* Direct calls of chunk_text_with_page_tracking and encode_documents
\* ------------------------------------------------------------------------
\* longest pages_data and longest batch of texts of a direct call
MaxPages == 2
MaxTexts == 2

PageTexts ==
  { <<>>, <<" ">>, <<"\n", " ">>, <<"a">>, <<"a", " ", "b">>, <<"a", "\n", "b">>,
    <<" ", "a", "b", " ">> }

EncoderTexts ==
  { <<>>, <<" ">>, <<"a">>, <<"b", " ", "a">>, <<"A", " ", "a">>, <<"b", "a", "\n", "b">> }

ChunkConfigs == { <<1, 0>>, <<2, 1>>, <<3, 3>>, <<4, 1>>, <<2, 3>> }

SeqsUpTo(S, n) == UNION {[1..m -> S] : m \in 0..n}

ChunkCalls ==
  {[fn |-> "chunk",
    pages_data |-> [i \in 1..Len(texts) |-> [page_number |-> i, text |-> texts[i]]],
    chunk_size |-> cfg[1], chunk_overlap |-> cfg[2]] :
     texts \in SeqsUpTo(PageTexts, MaxPages), cfg \in ChunkConfigs}

EncodeCalls ==
  UNION {{[fn |-> "encode", texts |-> texts, keys |-> keys] : keys \in KeyOrders(texts)} :
         texts \in SeqsUpTo(EncoderTexts, MaxTexts)}

SysUnchanged ==
  UNCHANGED <<index, nextId, tmpdirs, tmpfiles, reqCount, faults, anyLen,
              pc, req, tmp, k, run, details, resp>>

\* chunk_text_with_page_tracking(pages_data, chunk_size, chunk_overlap)
CallChunker ==
  /\ call.fn = "chunk"
  /\ ret = NoReturn
  /\ ret' = IF SplitterRejects(call.chunk_size, call.chunk_overlap)
            THEN [pending |-> FALSE, raised |-> "Got a larger chunk overlap than chunk size",
                  value |-> <<>>]
            ELSE [pending |-> FALSE, raised |-> "",
                  value |-> chunk_text_with_page_tracking(call.pages_data, call.chunk_size,
                                                          call.chunk_overlap)]
  /\ UNCHANGED call
  /\ SysUnchanged

\* stored points of a collection written by any client: a complete payload, a
\* text of more than TextLimit characters with an empty source_path, a payload
\* without the keys read by the search, and a text of exactly TextLimit
\* characters
StoredPoints ==
  LET none == [indices |-> <<>>, values |-> <<>>]
      path == [dir |-> 0, name |-> <<"a", ".", "p", "d", "f">>]
  IN  { [id |-> 1, dense |-> <<1, 0, 0>>, sparse |-> none,
         payload |-> [source_path |-> path, filename |-> path.name, chunk_index |-> 0,
                      page_number |-> 1, page_numbers |-> <<1>>, text |-> <<"a">>]],
        [id |-> 2, dense |-> <<0, 1, 0>>, sparse |-> none,
         payload |-> [source_path |-> NoPath, filename |-> <<"b">>, chunk_index |-> 0,
                      page_number |-> 2, page_numbers |-> <<2>>,
                      text |-> [i \in 1..(TextLimit + 1) |-> "b"]]],
        [id |-> 3, dense |-> <<0, 0, 1>>, sparse |-> none,
         payload |-> [chunk_index |-> 0]],
        [id |-> 4, dense |-> <<1, 1, 0>>, sparse |-> none,
         payload |-> [source_path |-> path, filename |-> path.name, chunk_index |-> 1,
                      page_number |-> 1, page_numbers |-> <<1>>,
                      text |-> [i \in 1..TextLimit |-> "a"]]] }

\* most points a collection of a direct search holds
MaxStored == 3

SearchCalls ==
  {[fn |-> "search", stored |-> stored, query_text |-> text, limit |-> limit] :
     stored \in {S \in SUBSET StoredPoints : Cardinality(S) <= MaxStored},
     text \in {<<"a">>, <<"b", " ">>}, limit \in {1, 5}}

\* the index whose collection "kb" holds the given points
IndexHolding(stored) ==
  [c \in Collections |->
     IF c = "kb"
     THEN [exists |-> TRUE, size |-> EmbeddingDim("None"), distance |-> "Cosine",
           sparse |-> TRUE, points |-> stored]
     ELSE NoCollection]

\* perform_hybrid_search(client, "kb", query_text, None, limit)
CallSearch ==
  /\ call.fn = "search"
  /\ ret = NoReturn
  /\ \E out \in perform_hybrid_search(IndexHolding(call.stored), "kb", call.query_text,
                                       "None", call.limit) :
       ret' = [pending |-> FALSE, raised |-> out.raised, value |-> out.sources,
               points |-> out.points]
  /\ UNCHANGED call
  /\ SysUnchanged

\* BM25SparseEncoder().encode_documents(texts)
CallEncoder ==
  /\ call.fn = "encode"
  /\ ret = NoReturn
  /\ LET enc == encode_documents(call.texts, call.keys)
     IN  ret' = [pending |-> FALSE, raised |-> enc.raised, value |-> enc.vectors]
  /\ UNCHANGED call
  /\ SysUnchanged

InitPure == InitWith(FALSE, ChunkCalls \cup EncodeCalls \cup SearchCalls)

NextPure == CallChunker \/ CallEncoder \/ CallSearch

SpecPure == InitPure /\ [][NextPure]_vars

\* the system with an embedding model that may return any number of vectors
\* (EmbeddingModel is an interface; embed is what an implementation makes it)
InitAnyEmbedder == InitWith(TRUE, {NoCall})

SpecAnyEmbedder == InitAnyEmbedder /\ [][Next]_vars

\* ------------------------------------------------------------------------
\* Retrieval: ingestions followed by queries
\* ------------------------------------------------------------------------
\* query texts; "a b" and "ab " have the same dense vector and different
\* sparse vectors
QueryTexts == { <<"a">>, <<"b">>, <<"a", " ", "b">>, <<"a", "b", " ">> }

QueryLimits == {0, 1, 2, 5}

\* a file whose three chunks differ in their similarity to each query text
FileC == [filename |-> <<"c", ".", "p", "d", "f">>,
          pages |-> << <<"a">>, <<"b", " ", "b">>, <<"a", " ", "a", "b">> >>]

SearchRequests ==
  { Ingest(FileC, "kb", "None", 4, 1),
    Upload(<<FileB>>, "kb", "None", 4, 1),
    Query(<<"a">>, "kb", "small", 5) }
  \cup {Query(text, "kb", "None", limit) : text \in QueryTexts, limit \in QueryLimits}

BeginSearch(p) == BeginFrom(p, SearchRequests)

NextSearch ==
  \E p \in Procs :
    \/ BeginSearch(p)
    \/ Validate(p)
    \/ Save(p)
    \/ Extract(p)
    \/ Chunk(p)
    \/ Encode(p)
    \/ EnsureCheck(p)
    \/ EnsureCreate(p)
    \/ Upsert(p)
    \/ Cleanup(p)
    \/ Search(p)

SpecSearch == Init /\ [][NextSearch]_vars

\* ========================================================================
\* Properties
\* ========================================================================
\* the positions of a worker inside process_single_pdf
RunStages == {"extract", "chunk", "encode", "ensure", "create", "upsert"}

ResultKeys == {"filename", "chunks", "status", "message"}

\* the result records a worker holds: files_details, and the record a direct
\* caller received
Records(p) ==
  Range(details[p]) \cup
  (IF req[p].kind = "ingest" /\ resp[p] # NoResponse THEN {resp[p]} ELSE {})

\* the messages of the exceptions that can be raised inside process_single_pdf
ExceptionMessages ==
  {"extraction failed", "Got a larger chunk overlap than chunk size",
   "embedding failed", "float division by zero", "index unreachable",
   "create_collection refused", "upsert refused"}

\* the exception raised inside process_single_pdf by the step p is taking
\* ("" when there is none). myvector_store's ensure_collection catches the
\* failure of get_collection itself, so that one does not count.
RaisedInStep(p) ==
  LET fault == faults' = faults + 1 IN
  CASE pc[p] = "extract" /\ fault -> "extraction failed"
    [] pc[p] = "chunk" /\ SplitterRejects(req[p].chunk_size, req[p].chunk_overlap)
         -> "Got a larger chunk overlap than chunk size"
    [] pc[p] = "encode" /\ fault -> "embedding failed"
    [] pc[p] = "ensure" /\ fault /\ Variant(p) = "services" -> "index unreachable"
    [] pc[p] = "create" /\ fault -> "index unreachable"
    [] pc[p] = "create" /\ ~fault
         /\ (index[req[p].collection_name].exists \/ run[p].vector_size < 1)
         -> "create_collection refused"
    [] pc[p] = "upsert" /\ fault -> "index unreachable"
    [] pc[p] = "upsert" /\ ~fault /\ run[p].vectors # <<>>
         /\ (~index[req[p].collection_name].exists
             \/ index[req[p].collection_name].size # run[p].vector_size)
         -> "upsert refused"
    [] OTHER -> ""

\* the step of p ends its process_single_pdf call
RunEnds(p) == pc[p] \in RunStages /\ pc'[p] \notin RunStages

\* the record process_single_pdf returns in the step that ends the call
Returned(p) ==
  IF req[p].kind = "upload" THEN details'[p][Len(details'[p])] ELSE resp'[p]

\* C1: process_single_pdf never raises. Every call ends by returning a record
\* with exactly the keys filename, chunks, status and message and a status of
\* "success" or "error" (the upload loop goes on, the finally block is not
\* entered by an exception); a step in which a stage raises ends the call, and
\* the record returned then has status "error", chunks 0 and the exception's
\* message.
C1_Step ==
  \A p \in Procs :
    /\ RunEnds(p) =>
         /\ pc'[p] \in {"save", "cleanup", "idle"}
         /\ req[p].kind = "upload" => Len(details'[p]) = Len(details[p]) + 1
         /\ DOMAIN Returned(p) = ResultKeys
         /\ Returned(p).status \in {"success", "error"}
         /\ Returned(p).filename = File(p).filename
    /\ (pc[p] \in RunStages /\ pc'[p] # pc[p] /\ RaisedInStep(p) # "") =>
         /\ RunEnds(p)
         /\ Returned(p).status = "error"
         /\ Returned(p).chunks = 0
         /\ Returned(p).message = RaisedInStep(p)

\* C1: process_single_pdf never raises: every step of every call satisfies
\* C1_Step, so each call ends with a well-formed result record and a raising
\* stage yields status "error", chunks 0 and the exception's message.
C1_NeverRaises ==
  /\ [](\A p \in Procs : \A r \in Records(p) :
          DOMAIN r = ResultKeys /\ r.status \in {"success", "error"})
  /\ [][C1_Step]_vars

\* an upload whose second file failed at extraction and whose third
\* file was processed all the same
C1_Witness ==
  \E p \in Procs :
    /\ Len(details[p]) = 3
    /\ details[p][2].status = "error"
    /\ details[p][2].message = "extraction failed"
    /\ details[p][3].status = "success"

\* an upload request that has been answered with its UploadResponse
Answered(p) == pc[p] = "idle" /\ req[p].kind = "upload" /\ resp[p].code = 200

\* what process_single_pdf returns for a file ingested alone when no stage
\* raises
AloneResult(file, r) ==
  IF file.pages = <<>> \/ \A i \in 1..Len(file.pages) : Strip(file.pages[i]) = <<>>
  THEN [filename |-> file.filename, chunks |-> 0, status |-> "error",
        message |-> "No text extracted from PDF"]
  ELSE LET n == Len(chunk_text_with_page_tracking(PagesData(file), r.chunk_size,
                                                  r.chunk_overlap))
       IN  [filename |-> file.filename, chunks |-> n, status |-> "success",
            message |-> <<"Processed", n, "chunks">>]

\* the points in the request's collection that carry the path under which the
\* request of p saved the file called name
PointsFrom(p, name) ==
  {pt \in index[req[p].collection_name].points :
     pt.payload.source_path = [dir |-> tmp[p], name |-> name]}

\* chunk_index, page and text of a set of points / of the chunks of a file
FactsOfPoints(points) ==
  {<<pt.payload.chunk_index, pt.payload.page_number, pt.payload.text>> : pt \in points}

FactsOfFile(file, r) ==
  LET chunks == chunk_text_with_page_tracking(PagesData(file), r.chunk_size, r.chunk_overlap)
  IN  {<<i - 1, chunks[i].page_number, chunks[i].text>> : i \in 1..Len(chunks)}

\* C2: the response to a batch upload of N files carries N result records in
\* upload order, files_processed counts the records with status "success", and
\* every file fares as it would alone: unless one of its own stages raised, its
\* record is the one the file gets when ingested alone, whatever happened to
\* the files before it, and the points stored under its path are those of its
\* own chunks, once per successful ingestion of that name.
C2_BatchIndependent ==
  \A p \in Procs :
    Answered(p) =>
      LET d == resp[p].files_details
          files == req[p].files
      IN  /\ Len(d) = Len(files)
          /\ resp[p].files_processed =
               Cardinality({i \in 1..Len(d) : d[i].status = "success"})
          /\ \A i \in 1..Len(files) :
               /\ d[i].filename = files[i].filename
               /\ d[i].message \in ExceptionMessages \/ d[i] = AloneResult(files[i], req[p])
               /\ LET same == {j \in 1..Len(files) :
                                 files[j] = files[i] /\ d[j].status = "success"}
                      pts == PointsFrom(p, files[i].filename)
                  IN  /\ Cardinality(pts) =
                           Cardinality(same) * Cardinality(FactsOfFile(files[i], req[p]))
                      /\ same # {} => FactsOfPoints(pts) = FactsOfFile(files[i], req[p])
                      /\ same = {} => pts = {}

\* three files, the second without text: one "error" between two "success"
C2_Witness ==
  \E p \in Procs :
    /\ Answered(p)
    /\ req[p].files = <<FileA, FileBlank, FileB>>
    /\ resp[p].files_processed = 2
    /\ resp[p].files_details[1].status = "success"
    /\ resp[p].files_details[2].status = "error"
    /\ resp[p].files_details[2].message = "No text extracted from PDF"
    /\ resp[p].files_details[3].status = "success"
    /\ Cardinality(index["kb"].points) >= 3

\* a /query request that has been answered, without any failure of the
\* embedding model or of the connection to the index
QueryAnswered(p) ==
  /\ pc[p] = "idle"
  /\ req[p].kind = "query"
  /\ resp[p] # NoResponse
  /\ ~(resp[p].code = 500 /\ resp[p].detail = "service unreachable")

\* C3: a search in a collection that does not exist returns an empty sequence
\* and does not raise, so that /query answers "No relevant information found."
\* (collections are never deleted: one that is missing after the query was
\* missing when it ran).
C3_MissingCollectionIsEmpty ==
  \A p \in Procs :
    (QueryAnswered(p) /\ ~index[req[p].collection_name].exists) =>
      /\ resp[p].code = 200
      /\ resp[p].sources = <<>>
      /\ resp[p].answer = "No relevant information found."

\* the vector sizes of the embedding models in use
VectorSizes == {EmbeddingDim("None"), EmbeddingDim("small")}

\* C4: ensure_collection is idempotent. A call that finds the collection (the
\* backend answering) issues no create_collection, does not raise and leaves
\* the whole index as it is, whatever vector_size it was given; a call that
\* finds it absent goes on to create_collection, which creates this one
\* collection, empty, with a "dense" space of the given size under cosine
\* distance and a "sparse" space, and touches no other; a collection that
\* exists keeps its size and distance in every step. A second call after a
\* first changes nothing.
C4_Step ==
  /\ \A c \in Collections :
       index[c].exists =>
         /\ index'[c].exists
         /\ index'[c].size = index[c].size
         /\ index'[c].distance = index[c].distance
  /\ \A p \in Procs :
       LET name == req[p].collection_name IN
       /\ (pc[p] = "ensure" /\ pc'[p] # "ensure" /\ faults' = faults) =>
            /\ index' = index
            /\ pc'[p] = IF index[name].exists THEN "upsert" ELSE "create"
       /\ (pc[p] = "create" /\ pc'[p] = "upsert") =>
            /\ ~index[name].exists
            /\ index'[name] = [exists |-> TRUE, size |-> run[p].vector_size,
                               distance |-> "Cosine", sparse |-> TRUE, points |-> {}]
            /\ \A c \in Collections \ {name} : index'[c] = index[c]

\* C4: ensure_collection is idempotent: every step satisfies C4_Step, so a call
\* on an existing collection changes nothing and a call on an absent one
\* creates exactly that collection with the given vector size.
C4_EnsureIdempotent ==
  /\ [](\A c \in Collections : \A s1, s2 \in VectorSizes :
          /\ index[c].exists => ensure_collection(index, c, s1) = index
          /\ ensure_collection(ensure_collection(index, c, s1), c, s2)
               = ensure_collection(index, c, s1))
  /\ [][C4_Step]_vars

\* a run that has passed ensure_collection with a vector size other than that
\* of the existing, non-empty collection
C4_Witness ==
  \E p \in Procs :
    /\ pc[p] = "upsert"
    /\ index[req[p].collection_name].exists
    /\ index[req[p].collection_name].points # {}
    /\ index[req[p].collection_name].size # run[p].vector_size

\* C5: upsert_chunks writes one point per chunk: whenever process_single_pdf
\* returns status "success" with chunks = n, that run added exactly n points to
\* the collection, one for each chunk_index 0..n-1, whatever number of vectors
\* the dense encoder returned.
C5_Step ==
  \A p \in Procs :
    (RunEnds(p) /\ Returned(p).status = "success") =>
      LET name == req[p].collection_name
          added == index'[name].points \ index[name].points
      IN  /\ Cardinality(added) = Returned(p).chunks
          /\ {pt.payload.chunk_index : pt \in added} = 0..(Returned(p).chunks - 1)

AllPoints == UNION {index[c].points : c \in Collections}

\* C6: every upsert gives its points fresh ids, so under every interleaving no
\* step overwrites or removes a stored point: the points of a collection only
\* grow, they grow only by a successful ingestion and then by exactly its chunk
\* count (so the size is the sum of the chunk counts of the successful
\* ingestions, a re-ingested document being stored again), and no two stored
\* points share an id.
C6_Step ==
  /\ \A c \in Collections : index[c].points \subseteq index'[c].points
  /\ \A p \in Procs :
       (RunEnds(p) /\ Returned(p).status = "success") =>
         Cardinality(index'[req[p].collection_name].points)
           = Cardinality(index[req[p].collection_name].points) + Returned(p).chunks
  /\ (\A p \in Procs : ~(RunEnds(p) /\ Returned(p).status = "success")) =>
       \A c \in Collections : index'[c].points = index[c].points

\* C6: every step satisfies C6_Step and no two stored points share an id:
\* stored points are never overwritten or removed, and a collection grows
\* only by the chunk count of a successful ingestion.
C6_PointsOnlyGrow ==
  /\ [](\A a, b \in AllPoints : a.id = b.id => a = b)
  /\ [][C6_Step]_vars

\* the same document ingested twice into one collection: its chunk is stored
\* twice, under two ids
C6_Witness ==
  \E a, b \in index["kb"].points :
    /\ a.id # b.id
    /\ a.payload.filename = b.payload.filename
    /\ a.payload.chunk_index = b.payload.chunk_index
    /\ a.payload.text = b.payload.text
    /\ a.dense = b.dense

\* page sets that are entirely blank, as pages_data
BlankPageSets ==
  {[i \in 1..Len(texts) |-> [page_number |-> i, text |-> texts[i]]] :
     texts \in SeqsUpTo({t \in PageTexts : Strip(t) = <<>>}, MaxPages)}

\* C7: blank pages produce no chunks. chunk_text_with_page_tracking on a page
\* set that is empty or entirely blank returns the empty sequence (for every
\* configuration the splitter accepts); in every ingestion run no chunk comes
\* from a page whose text is empty or white space only and no chunk has an
\* empty text; and every point in the index has a payload with non-empty text.
C7_BlankPagesNoChunks ==
  /\ \A pt \in AllPoints : pt.payload.text # <<>>
  /\ \A p \in Procs : \A i \in 1..Len(run[p].chunks) :
       /\ run[p].chunks[i].text # <<>>
       /\ Strip(File(p).pages[run[p].chunks[i].page_number]) # <<>>
  /\ reqCount = 0 =>
       \A pages_data \in BlankPageSets : \A cfg \in ChunkConfigs :
         ~SplitterRejects(cfg[1], cfg[2]) =>
           chunk_text_with_page_tracking(pages_data, cfg[1], cfg[2]) = <<>>

\* a file with a blank page between two pages of text has been stored: points
\* of pages 1 and 3, none of page 2
C7_Witness ==
  \E a, b \in index["kb"].points :
    /\ a.payload.source_path = b.payload.source_path
    /\ a.payload.page_number = 1
    /\ b.payload.page_number = 3
    /\ Strip(FileA.pages[2]) = <<>>
    /\ a.payload.filename = FileA.filename
    /\ \A c \in index["kb"].points :
         c.payload.source_path = a.payload.source_path => c.payload.page_number # 2

\* a direct call of the chunker that has returned normally
ChunkerReturned == call.fn = "chunk" /\ ret # NoReturn /\ ret.raised = ""

\* C8: the chunker's output is, page after page in input order, the splits of
\* each non-blank page in split order. Every chunk carries the number of the
\* one page it was cut from as page_number and as the only entry of
\* page_numbers; the chunks carrying page n are exactly the splits of page n's
\* text, in order (none for a blank page); page_number never decreases along
\* the output.
C8_PageOrder ==
  ChunkerReturned =>
    LET out == ret.value
        pages == call.pages_data
    IN  /\ \A i \in 1..Len(out) :
             /\ out[i].page_number \in 1..Len(pages)
             /\ out[i].page_numbers = <<out[i].page_number>>
        /\ \A i, j \in 1..Len(out) : i < j => out[i].page_number <= out[j].page_number
        /\ \A n \in 1..Len(pages) :
             LET mine == SelectSeq(out, LAMBDA c : c.page_number = pages[n].page_number)
                 texts == [i \in 1..Len(mine) |-> mine[i].text]
             IN  texts = IF Strip(pages[n].text) = <<>> THEN <<>>
                         ELSE SplitText(pages[n].text, call.chunk_size, call.chunk_overlap)

\* two pages of text, cut into more than one chunk each
C8_Witness ==
  /\ ChunkerReturned
  /\ Len(call.pages_data) = 2
  /\ Cardinality({i \in 1..Len(ret.value) : ret.value[i].page_number = 1}) >= 2
  /\ Cardinality({i \in 1..Len(ret.value) : ret.value[i].page_number = 2}) >= 2
  /\ call.pages_data[1].text # call.pages_data[2].text

\* a direct call of encode_documents that has ended
EncoderEnded == call.fn = "encode" /\ ret # NoReturn

\* C9: encode_documents returns one sparse vector per input text, in input
\* order, and never raises: output i has one entry per distinct token of text
\* i, each computed with text i's length, the term frequencies adding up to
\* that length; a text that is empty or white space only gets a vector
\* without entries; encode_documents([]) returns [].
C9_OneVectorPerText ==
  EncoderEnded =>
    /\ ret.raised = ""
    /\ Len(ret.value) = Len(call.texts)
    /\ call.texts = <<>> => ret.value = <<>>
    /\ \A i \in 1..Len(call.texts) :
         LET tokens == SplitWS(Lower(call.texts[i]), <<>>)
             v == ret.value[i]
         IN  /\ Len(v.indices) = Cardinality(Range(tokens))
             /\ Len(v.values) = Cardinality(Range(tokens))
             /\ \A j \in 1..Len(v.values) : v.values[j].doc_len = Len(tokens)
             /\ SumSeq([j \in 1..Len(v.values) |-> v.values[j].freq]) = Len(tokens)
             /\ Strip(call.texts[i]) = <<>> => v = [indices |-> <<>>, values |-> <<>>]

\* a batch whose first text is white space only and whose second has tokens
C9_Witness ==
  /\ EncoderEnded
  /\ Len(call.texts) = 2
  /\ call.texts[1] = <<" ">>
  /\ ret.value[1].indices = <<>>
  /\ Len(ret.value[2].indices) = 2

\* C10: term ids are the lexicographic ranks of the terms among the distinct
\* lower-cased white-space tokens of the batch (the ids in use are exactly
\* 0..V-1), whatever order the Counter holds its keys in: every such order
\* gives the same vectors, so two calls on the same batch return the same
\* indices and values. In each vector the indices are pairwise distinct, there
\* are as many values as indices, and the indices are those of the terms that
\* occur in that text.
C10_DeterministicIds ==
  (EncoderEnded /\ ret.raised = "") =>
    LET tokens(i) == SplitWS(Lower(call.texts[i]), <<>>)
        T == UNION {Range(tokens(i)) : i \in 1..Len(call.texts)}
        rank(t) == Cardinality({u \in T : StrLess(u, t)})
    IN  /\ \A i \in 1..Len(ret.value) :
             LET v == ret.value[i] IN
             /\ Len(v.indices) = Len(v.values)
             /\ \A j1, j2 \in 1..Len(v.indices) : v.indices[j1] = v.indices[j2] => j1 = j2
             /\ Range(v.indices) = {rank(t) : t \in Range(tokens(i))}
        /\ UNION {Range(ret.value[i].indices) : i \in 1..Len(ret.value)}
             = 0..(Cardinality(T) - 1)
        /\ \A keys \in KeyOrders(call.texts) :
             encode_documents(call.texts, keys).vectors = ret.value

\* a batch of two texts with several terms, encoded with the Counter holding
\* its keys out of lexicographic order
C10_Witness ==
  /\ EncoderEnded
  /\ Len(call.texts) = 2
  /\ Len(call.keys) >= 2
  /\ StrLess(call.keys[2], call.keys[1])
  /\ ret.value[1].indices # <<>>
  /\ ret.value[2].indices # <<>>

\* the sparse vector perform_hybrid_search computes for a query text
QuerySparse(text) ==
  {encode_documents(<<text>>, keys).vectors[1] : keys \in KeyOrders(<<text>>)}

C11_SparseIgnored ==
  \A t1, t2 \in QueryTexts : \A limit \in QueryLimits :
    DenseVec("None", t1) = DenseVec("None", t2) =>
      perform_hybrid_search(index, "kb", t1, "None", limit)
        = perform_hybrid_search(index, "kb", t2, "None", limit)

C11_Step ==
  \A p \in Procs :
    (pc[p] = "search" /\ resp'[p].code = 200) =>
      LET points == index[req[p].collection_name].points
          sources == resp'[p].sources
          q == DenseVec(req[p].model_name, req[p].query)
          better(score) == {pt \in points : Similarity(q, pt.dense) > score}
      IN  /\ Len(sources) <= req[p].limit
          /\ Len(sources) = Min(req[p].limit, Cardinality(points))
          /\ \A i \in 1..Len(sources) :
               /\ \E pt \in points : sources[i] = Source(Scored(pt, q))
               /\ Cardinality(better(sources[i].score)) < i
               /\ \A j \in 1..Len(sources) : i < j => sources[i].score >= sources[j].score

\* C11: perform_hybrid_search returns at most limit results, exactly
\* min(limit, number of points) on an existing collection, ranked by the
\* similarity of the dense query vector, best first; and two query texts with
\* the same dense vector have the same possible results on every index, even
\* when their sparse vectors differ.
C11_DenseOnly ==
  /\ []C11_SparseIgnored
  /\ [][C11_Step]_vars

\* a query answered with limit = 2 of the 3 or more stored points, for a text
\* that shares its dense vector with a text of another sparse vector
C11_Witness ==
  \E p \in Procs :
    /\ req[p].kind = "query"
    /\ resp[p].code = 200
    /\ req[p].query = <<"a", " ", "b">>
    /\ Len(resp[p].sources) = 2
    /\ Cardinality(index["kb"].points) >= 3
    /\ DenseVec("None", <<"a", " ", "b">>) = DenseVec("None", <<"a", "b", " ">>)
    /\ QuerySparse(<<"a", " ", "b">>) \cap QuerySparse(<<"a", "b", " ">>) = {}

SearchReturned == call.fn = "search" /\ ret # NoReturn /\ ret.raised = ""

\* C12: perform_hybrid_search maps results.points one-to-one and in order into
\* sources: text is the first 300 characters of the payload text (all of it
\* when shorter, empty when missing), url is "file://" with source_path when
\* that is non-empty and "N/A" when it is empty or missing, and filename,
\* source_path, page_number and score are those of the point (with the
\* defaults "", "" and "N/A" for a missing key).
C12_SourcesFromPoints ==
  SearchReturned =>
    /\ Len(ret.value) = Len(ret.points)
    /\ \A i \in 1..Len(ret.points) :
         LET payload == ret.points[i].payload
             has(key) == key \in DOMAIN payload
             src == ret.value[i]
         IN  /\ DOMAIN src = {"url", "filename", "page_number", "source_path", "text", "score"}
             /\ Len(src.text) <= 300
             /\ IF ~has("text") THEN src.text = <<>>
                ELSE IF Len(payload.text) <= 300 THEN src.text = payload.text
                ELSE src.text = SubSeq(payload.text, 1, 300)
             /\ IF has("source_path") /\ payload.source_path # NoPath
                THEN src.url = <<"file://", payload.source_path>>
                     /\ src.source_path = payload.source_path
                ELSE src.url = <<"N/A">> /\ src.source_path = NoPath
             /\ IF has("filename") THEN src.filename = payload.filename
                ELSE src.filename = <<>>
             /\ IF has("page_number") THEN src.page_number = payload.page_number
                ELSE src.page_number = "N/A"
             /\ src.score = ret.points[i].score

\* a search that returned three sources: one with its text cut to 300
\* characters and the url "N/A" for an empty source_path, one built from a
\* payload without the keys, one with a "file://" url
C12_Witness ==
  /\ SearchReturned
  /\ Len(ret.value) = 3
  /\ \E i \in 1..3 : /\ "text" \in DOMAIN ret.points[i].payload
                     /\ Len(ret.points[i].payload.text) = 301
                     /\ Len(ret.value[i].text) = 300
                     /\ ret.value[i].url = <<"N/A">>
  /\ \E i \in 1..3 : /\ DOMAIN ret.points[i].payload = {"chunk_index"}
                     /\ ret.value[i].text = <<>>
  /\ \E i \in 1..3 : Len(ret.value[i].url) = 2

C13_Step ==
  \A p \in Procs :
    (pc[p] \in RunStages /\ pc'[p] # pc[p]
       /\ req[p].chunk_overlap >= req[p].chunk_size) =>
      /\ \A c \in Collections : index'[c].points = index[c].points
      /\ pc[p] = "chunk" =>
           /\ RunEnds(p)
           /\ Returned(p).status = "error"
           /\ Returned(p).chunks = 0

\* C13: with chunk_overlap >= chunk_size (equality included) the ingestion of
\* a document with text ends at the chunking stage with an error record for
\* that document, and no step of the run adds a point to the index.
C13_OverlapRejected == [][C13_Step]_vars

\* the stage that follows each stage of process_single_pdf (ensure_collection
\* is the test "ensure" and, for an absent collection, the creation "create")
StageOrder ==
  {<<"extract", "chunk">>, <<"chunk", "encode">>, <<"encode", "ensure">>,
   <<"ensure", "create">>, <<"ensure", "upsert">>, <<"create", "upsert">>}

\* the stage at which each emptiness guard ends the run
GuardStage ==
  [m \in {"No text extracted from PDF", "No chunks generated", "No vectors generated"} |->
     CASE m = "No text extracted from PDF" -> "extract"
       [] m = "No chunks generated" -> "chunk"
       [] OTHER -> "encode"]

C14_Step ==
  \A p \in Procs :
    (pc[p] \in RunStages /\ pc'[p] # pc[p]) =>
      /\ ~RunEnds(p) => <<pc[p], pc'[p]>> \in StageOrder
      /\ (RunEnds(p) /\ Returned(p).status = "success") => pc[p] = "upsert"
      /\ (RunEnds(p) /\ Returned(p).status = "error"
            /\ Returned(p).message \in DOMAIN GuardStage) =>
           pc[p] = GuardStage[Returned(p).message]

C15_Step ==
  \A p \in Procs :
    (pc[p] = "upsert" /\ RunEnds(p) /\ Returned(p).status = "success") =>
      LET name == req[p].collection_name
          added == index'[name].points \ index[name].points
          chunks == chunk_text_with_page_tracking(PagesData(File(p)), req[p].chunk_size,
                                                  req[p].chunk_overlap)
          texts == [i \in 1..Len(chunks) |-> chunks[i].text]
          at(i) == {pt \in added : pt.payload.chunk_index = i}
      IN  /\ run[p].chunks = chunks
          /\ {pt.payload.chunk_index : pt \in added} = 0..(Len(chunks) - 1)
          /\ \A i \in 0..(Len(chunks) - 1) :
               /\ Cardinality(at(i)) = 1
               /\ \A pt \in at(i) :
                    /\ pt.payload.text = chunks[i + 1].text
                    /\ pt.payload.page_number = chunks[i + 1].page_number
                    /\ pt.payload.page_numbers = chunks[i + 1].page_numbers
                    /\ pt.payload.filename = File(p).filename
                    /\ pt.payload.source_path = FilePath(p)
                    /\ pt.dense = DenseVec(req[p].model_name, chunks[i + 1].text)
                    /\ \A keys \in KeyOrders(texts) :
                         pt.sparse = encode_documents(texts, keys).vectors[i + 1]

\* C15: the points one ingestion run writes carry the chunk_index values
\* 0..n-1 of its n chunks, each once; the point with chunk_index i has the
\* text, page_number and page_numbers of chunk i of the chunker's output and
\* the dense and sparse vectors computed from that chunk's text.
C15_ChunkIndexIsPosition == [][C15_Step]_vars

\* the two chunks of one document stored with their positions, pages and
\* vectors
C15_Witness ==
  \E a, b \in index["kb"].points :
    /\ a.payload.source_path = b.payload.source_path
    /\ a.payload.chunk_index = 0 /\ a.payload.text = <<"a", " ", "b">>
    /\ b.payload.chunk_index = 1 /\ b.payload.text = <<"B", " ", "a">>
    /\ b.payload.page_number = 3
    /\ a.sparse # b.sparse

\* the run of p holds dense vectors of another size than its existing
\* collection
SizeMismatch(p) ==
  /\ pc[p] \in {"ensure", "create", "upsert"}
  /\ run[p].vectors # <<>>
  /\ index[req[p].collection_name].exists
  /\ index[req[p].collection_name].size # run[p].vector_size

C16_Step ==
  \A p \in Procs :
    (SizeMismatch(p) /\ pc'[p] # pc[p]) =>
      /\ index' = index
      /\ pc[p] = "upsert" => RunEnds(p)
      /\ RunEnds(p) => /\ Returned(p).status = "error"
                       /\ Returned(p).chunks = 0

\* C16: a run whose dense vectors have another size than the existing
\* collection it targets changes nothing in the index, neither in
\* ensure_collection nor in the upsert, which the backend rejects; the run
\* ends with status "error" and chunks 0, and the mismatch stays (the
\* collection keeps its size) until it does.
C16_MismatchRejected ==
  /\ [][C16_Step]_vars
  /\ [][\A p \in Procs : (SizeMismatch(p) /\ pc'[p] \in RunStages) => SizeMismatch(p)']_vars

\* a document embedded with the two-dimensional model was rejected by the
\* collection of size 3, which still holds its points
C16_Witness ==
  \E p \in Procs :
    /\ req[p].kind = "upload"
    /\ req[p].model_name = "small"
    /\ details[p] # <<>>
    /\ details[p][1].status = "error"
    /\ details[p][1].message = "upsert refused"
    /\ index["kb"].exists
    /\ index["kb"].size = 3
    /\ index["kb"].points # {}
    /\ \A pt \in index["kb"].points : Len(pt.dense) = 3

C17_Step ==
  \A p \in Procs :
    (faults' = 0 /\ pc[p] = "create" /\ pc'[p] # pc[p]) =>
      /\ ~index[req[p].collection_name].exists
      /\ ~RunEnds(p)

\* C17: as long as no external service fails, create_collection is issued
\* only on a collection that is absent at that moment, under every
\* interleaving of the runs, and so never ends a run: concurrent ingestions
\* into one absent collection all go on to their upsert.
C17_CreateOnlyWhenAbsent == [][C17_Step]_vars

\* a name that does not end in ".pdf", whatever the case of its letters
NotPdf(name) ==
  LET n == Len(name)
  IN  \/ n < 4
      \/ name[n - 3] # "."
      \/ name[n - 2] \notin {"p", "P"}
      \/ name[n - 1] \notin {"d", "D"}
      \/ name[n] \notin {"f", "F"}

\* the upload request of p holds a file that is not a PDF by its name
BadBatch(p) ==
  req[p].kind = "upload" /\ \E i \in 1..Len(req[p].files) : NotPdf(req[p].files[i].filename)

\* p's upload request has ended
UploadEnded(p) == req[p].kind = "upload" /\ pc[p] = "idle" /\ resp[p] # NoResponse

\* nothing of p's batch is in the temporary directory or in the index
NothingOf(p) ==
  /\ tmp[p] \notin tmpdirs
  /\ \A f \in tmpfiles : f.dir # tmp[p]
  /\ \A c \in Collections : \A pt \in index[c].points : pt.payload.source_path.dir # tmp[p]

C18_ValidationFirst ==
  \A p \in Procs :
    BadBatch(p) =>
      /\ pc[p] \in {"validate", "idle"}
      /\ details[p] = <<>>
      /\ NothingOf(p)
      /\ UploadEnded(p) => resp[p].code = 400

\* the temporary directory of p is created by the step that ends a validation
\* without a bad name, and p leaves the handler only from the validation
\* (HTTP 400) or through the finally block
C18_ExitPaths ==
  \A p \in Procs :
    (req[p].kind = "upload" /\ pc'[p] # pc[p]) =>
      /\ (tmp[p] \notin tmpdirs /\ tmp[p] \in tmpdirs') <=> (pc[p] = "validate" /\ pc'[p] = "save")
      /\ pc'[p] = "idle" =>
           \/ pc[p] = "validate" /\ resp'[p].code = 400
           \/ pc[p] = "cleanup" /\ resp'[p].code = 200
           \/ pc[p] = "cleanup_exc" /\ resp'[p].code = 500

\* the finally block has removed the directory and its files
C18_Removed(p) == tmp[p] \notin tmpdirs' /\ \A f \in tmpfiles' : f.dir # tmp[p]

\* C18 as stated: the validation of the whole batch comes before any
\* processing (a batch with a name that does not end in ".pdf" is answered 400
\* and leaves nothing in the temporary directory or the index), and on every
\* exit path after its creation the temporary directory is removed.
C18_AlwaysRemoved ==
  /\ []C18_ValidationFirst
  /\ [][C18_ExitPaths]_vars
  /\ [][\A p \in Procs :
          (req[p].kind = "upload" /\ pc[p] \in {"cleanup", "cleanup_exc"} /\ pc'[p] = "idle")
            => C18_Removed(p)]_vars

\* C18, amended: the validation of the whole batch comes before any processing
\* as above, and every exit path after the creation of the temporary directory
\* goes through the finally block, which removes the directory with its files
\* unless shutil.rmtree itself fails; that failure is swallowed and the
\* directory stays.
C18_RemovedUnlessRmtreeFails ==
  /\ []C18_ValidationFirst
  /\ [][C18_ExitPaths]_vars
  /\ [][\A p \in Procs :
          (req[p].kind = "upload" /\ pc[p] \in {"cleanup", "cleanup_exc"} /\ pc'[p] = "idle")
            => (C18_Removed(p) <=> faults' = faults)]_vars

\* one upload refused with 400 for the name listed after a valid PDF, and
\* one upload whose save failed, answered 500 with its directory removed
C18_Witness ==
  \E p, q \in Procs :
    /\ BadBatch(p) /\ UploadEnded(p)
    /\ Len(req[p].files) = 2 /\ ~NotPdf(req[p].files[1].filename)
    /\ req[q].kind = "upload" /\ UploadEnded(q) /\ resp[q].code = 500
    /\ tmp[q] \notin tmpdirs

====
